---- MODULE Spec2Model ----
(***************************************************************************)
(* Model of bot.py: a Telegram bot that stores URLs submitted by the admin *)
(* under an md5-derived identifier in one SQLite table, resolves the       *)
(* identifier on "/start <id>" while counting the click, and reports       *)
(* aggregate statistics.                                                    *)
(*                                                                          *)
(* Granularity: one step per SQL statement (SQLite executes a statement    *)
(* atomically); everything a handler does between two statements belongs   *)
(* to the step of the statement that follows.  Text is a tuple of          *)
(* one-character strings so that startswith, slicing and hashing are       *)
(* computed on the characters.                                              *)
(***************************************************************************)
EXTENDS Integers, Sequences, FiniteSets, TLC

VARIABLES store, clock, pc, ev, loc, out, returned, links, errors

vars == <<store, clock, pc, ev, loc, out, returned, links, errors>>

(* ------------------------------ bounds --------------------------------- *)
MaxClock == 1          \* the clock is read at 0..MaxClock within a run
SeedClock == 2         \* and was read at 0..SeedClock in the earlier run
DigestSpace == 7       \* number of values of the digest (2^128 in the code)
MaxSeed == 6           \* most rows in a table left by an earlier run
MaxClicks == 2         \* a lookup is delivered only below this many clicks
MaxLinks == 2          \* a submission is delivered only below this many links
MaxErrors == 1         \* a store statement fails only below this many failures

(* --------------------------- configuration ----------------------------- *)
ADMIN_ID == 1
OtherUser == ADMIN_ID + 1
Users == {ADMIN_ID, OtherUser}
bot_username == "bot"

(* ------------------------------- text ---------------------------------- *)
None == <<>>
Some(x) == <<x>>

HTTP == <<"h", "t", "t", "p", ":", "/", "/">>
HTTPS == <<"h", "t", "t", "p", "s", ":", "/", "/">>
COPY == <<"c", "o", "p", "y", "_">>

UrlA == HTTP \o <<"a">>
UrlB == HTTPS \o <<"b">>
UrlC == HTTP \o <<"c">>
NotUrl == <<"h", "t", "t", "p", ":", "a">>

ValidUrls == <<UrlA, UrlB, UrlC>>
Bodies == {UrlA, UrlB, UrlC, NotUrl}
Payloads == {COPY \o <<"a">>, <<"a">>}

\* str.startswith(prefix)
startswith(text, prefix) ==
    /\ Len(text) >= Len(prefix)
    /\ SubSeq(text, 1, Len(prefix)) = prefix

\* a mis-typed scheme test: any text beginning with "http" passes
has_url_scheme_http_only(text) == startswith(text, <<"h", "t", "t", "p">>)

\* message_text.startswith(('http://', 'https://'))
has_url_scheme(text) == startswith(text, HTTP) \/ startswith(text, HTTPS)

\* ord() of the characters that occur in hashed text
Ascii ==
    { <<"h", 104>>, <<"t", 116>>, <<"p", 112>>, <<"s", 115>>, <<":", 58>>,
      <<"/", 47>>, <<"a", 97>>, <<"b", 98>>, <<"c", 99>>, <<"_", 95>>,
      <<"0", 48>>, <<"1", 49>>, <<"2", 50>>, <<"3", 51>>, <<"4", 52>>,
      <<"5", 53>>, <<"6", 54>>, <<"7", 55>>, <<"8", 56>>, <<"9", 57>> }

Ord(c) == (CHOOSE p \in Ascii : p[1] = c)[2]

Digits == <<"0", "1", "2", "3", "4", "5", "6", "7", "8", "9">>

\* the clock reading as it is formatted into the hashed text
Str(t) == <<Digits[t + 1]>>

(* A digest of fixed width: every character of the text is folded into a   *)
(* value of DigestSpace possibilities.  As with the 128-bit digest of the  *)
(* code, there are more texts than digests, so distinct texts can share a  *)
(* digest.                                                                  *)
RECURSIVE md5(_)
md5(s) ==
    IF s = <<>> THEN 0
    ELSE (md5(SubSeq(s, 1, Len(s) - 1)) * 31 + Ord(s[Len(s)])) % DigestSpace

Ids == 0 .. (DigestSpace - 1)

\* an identifier that also depends on the number of records
generate_unique_id_counter(url, now) ==
    md5(url \o <<"_">> \o Str(now) \o Str(Len(store)))

\* generate_unique_id: md5 of f"{url}_{time.time()}"; the hexadecimal
\* rendering of the digest is one-to-one and is left out
generate_unique_id(url, now) == md5(url \o <<"_">> \o Str(now))

\* f"https://t.me/{bot_username}?start={unique_id}"
DeepLink(unique_id) == <<"https://t.me/", bot_username, "?start=", unique_id>>

\* the argument Telegram delivers to /start when the deep link is opened
StartArg(deep_link) == deep_link[4]

\* f"{first_name} {last_name or ''} (@{username or 'N/A'})"
user_name(user) == <<"user", user, "(@N/A)">>

(* ---------------------------- SQL statements --------------------------- *)
UniqueIds(s) == { s[i].unique_id : i \in 1 .. Len(s) }

NewRow(s, unique_id, original_url, user_id, now) ==
    [ id |-> Len(s) + 1, unique_id |-> unique_id,
      original_url |-> original_url, created_at |-> now, click_count |-> 0,
      user_id |-> user_id, user_name |-> user_name(user_id) ]

\* INSERT without the UNIQUE constraint on unique_id
SqlInsert_no_unique(s, unique_id, original_url, user_id, now) ==
    [ ok |-> TRUE,
      store |-> Append(s, NewRow(s, unique_id, original_url, user_id, now)) ]

\* INSERT OR REPLACE: a colliding row is overwritten
SqlInsert_or_replace(s, unique_id, original_url, user_id, now) ==
    IF unique_id \in UniqueIds(s)
    THEN [ ok |-> TRUE,
           store |-> [ i \in 1 .. Len(s) |->
                         IF s[i].unique_id = unique_id
                         THEN [ s[i] EXCEPT !.original_url = original_url,
                                            !.click_count = 0,
                                            !.created_at = now ]
                         ELSE s[i] ] ]
    ELSE [ ok |-> TRUE,
           store |-> Append(s, NewRow(s, unique_id, original_url, user_id, now)) ]

\* INSERT INTO urls (unique_id, original_url, user_id, user_name) under the
\* schema of init_db: unique_id is UNIQUE, id autoincrements, created_at
\* defaults to the current time and click_count to 0.  ok = FALSE is
\* sqlite3.IntegrityError.
SqlInsert(s, unique_id, original_url, user_id, now) ==
    IF unique_id \in UniqueIds(s)
    THEN [ ok |-> FALSE, store |-> s ]
    ELSE [ ok |-> TRUE,
           store |-> Append(s, NewRow(s, unique_id, original_url, user_id, now)) ]

\* SELECT without its WHERE clause: the first row of the table
SqlSelectUrl_no_where(s, unique_id) ==
    IF Len(s) = 0 THEN None ELSE Some(s[1].original_url)

\* SELECT original_url FROM urls WHERE unique_id = ?  followed by fetchone()
SqlSelectUrl(s, unique_id) ==
    IF unique_id \in UniqueIds(s)
    THEN Some((CHOOSE r \in { s[i] : i \in 1 .. Len(s) } :
                  r.unique_id = unique_id).original_url)
    ELSE None

\* UPDATE ... SET click_count = 1: the increment does not add up
SqlUpdateClicks_set_one(s, unique_id) ==
    [ i \in 1 .. Len(s) |->
        IF s[i].unique_id = unique_id
        THEN [ s[i] EXCEPT !.click_count = 1 ]
        ELSE s[i] ]

\* UPDATE without its WHERE clause: every row is incremented
SqlUpdateClicks_no_where(s, unique_id) ==
    [ i \in 1 .. Len(s) |-> [ s[i] EXCEPT !.click_count = @ + 1 ] ]

\* UPDATE urls SET click_count = click_count + 1 WHERE unique_id = ?
SqlUpdateClicks(s, unique_id) ==
    [ i \in 1 .. Len(s) |->
        IF s[i].unique_id = unique_id
        THEN [ s[i] EXCEPT !.click_count = @ + 1 ]
        ELSE s[i] ]

\* SELECT COUNT(*) FROM urls
SqlCount(s) == Len(s)

RECURSIVE SumClicks(_)
SumClicks(s) ==
    IF s = <<>> THEN 0
    ELSE SumClicks(SubSeq(s, 1, Len(s) - 1)) + s[Len(s)].click_count

\* SELECT SUM(click_count) FROM urls: NULL (None) over an empty table
SqlSum(s) == IF Len(s) = 0 THEN None ELSE Some(SumClicks(s))

\* "x or 0" with the "or 0" left out: None stays None
PyOrZero_missing(x) == x

\* fetchone()[0] or 0: None and 0 are falsy
PyOrZero(x) == IF x = None \/ x = Some(0) THEN Some(0) ELSE x

Min(a, b) == IF a < b THEN a ELSE b

TopRows(s, p, limit) ==
    [ i \in 1 .. Min(limit, Len(s)) |->
        <<s[p[i]].original_url, s[p[i]].click_count>> ]

\* ORDER BY click_count ASC
SqlTopUrls_ascending(s, limit) ==
    { TopRows(s, p, limit) :
        p \in { q \in Permutations(1 .. Len(s)) :
                  \A i \in 1 .. Len(s) - 1 :
                     s[q[i]].click_count <= s[q[i + 1]].click_count } }

\* the query without LIMIT
SqlTopUrls_no_limit(s, limit) ==
    { TopRows(s, p, Len(s)) :
        p \in { q \in Permutations(1 .. Len(s)) :
                  \A i \in 1 .. Len(s) - 1 :
                     s[q[i]].click_count >= s[q[i + 1]].click_count } }

\* SELECT original_url, click_count FROM urls ORDER BY click_count DESC
\* LIMIT 5, then fetchall().  SQL leaves the order of rows with equal
\* click_count open: the result is any one of these lists.
SqlTopUrls(s, limit) ==
    { TopRows(s, p, limit) :
        p \in { q \in Permutations(1 .. Len(s)) :
                  \A i \in 1 .. Len(s) - 1 :
                     s[q[i]].click_count >= s[q[i + 1]].click_count } }

TopLimit == 5

(* ------------------------------ events --------------------------------- *)
Events ==
    [ kind : {"StartNoArg", "Help", "Stats"}, user : Users ]
    \cup [ kind : {"StartWithArg"}, user : Users, arg : Ids ]
    \cup [ kind : {"TextMessage"}, user : Users, text : Bodies ]
    \cup [ kind : {"Callback"}, user : Users, data : Payloads ]

\* the events of the create, lookup and stats operations
StoreEvents ==
    [ kind : {"StartWithArg"}, user : {OtherUser}, arg : Ids ]
    \cup [ kind : {"TextMessage"}, user : {ADMIN_ID},
           text : {UrlA, UrlB} ]
    \cup [ kind : {"Stats"}, user : {ADMIN_ID} ]

NoEvent == [ kind |-> "none" ]
NoLocals == [ calls |-> 0 ]
NoOut == [ ev |-> NoEvent, resp |-> [ kind |-> "none" ], calls |-> 0,
           log |-> "none", ret |-> None ]

Tasks == DOMAIN pc

\* the admin test that lets everybody through
not_admin_never(user) == FALSE

\* user.id != ADMIN_ID
not_admin(user) == user # ADMIN_ID

(* ------------------------------- Init ---------------------------------- *)
\* the create calls of an earlier run, in the order they were made
SeedInputs ==
    [ k \in 1 .. (SeedClock + 1) * Len(ValidUrls) |->
        [ url |-> ValidUrls[((k - 1) % Len(ValidUrls)) + 1],
          now |-> (k - 1) \div Len(ValidUrls) ] ]

RECURSIVE SeedStore(_)
SeedStore(k) ==
    IF k = 0 THEN <<>>
    ELSE SqlInsert(SeedStore(k - 1),
                   generate_unique_id(SeedInputs[k].url, SeedInputs[k].now),
                   SeedInputs[k].url, ADMIN_ID, SeedInputs[k].now).store

InitTasks(T) ==
    /\ pc = [ h \in T |-> "idle" ]
    /\ ev = [ h \in T |-> NoEvent ]
    /\ loc = [ h \in T |-> NoLocals ]
    /\ out = NoOut
    /\ returned = [ u \in Ids |-> 0 ]
    /\ links = {}
    /\ errors = 0

\* init_db on a database file that does not exist yet; updates are handled
\* one at a time
Init ==
    /\ store = <<>>
    /\ clock = 0
    /\ InitTasks({1})

\* the same, with two updates in the hands of their handlers at a time
InitConcurrent ==
    /\ store = <<>>
    /\ clock = 0
    /\ InitTasks({1, 2})

\* init_db keeps the table an earlier run left in the file (CREATE TABLE IF
\* NOT EXISTS): links that were created and not opened yet.  Updates are
\* handled one at a time.
InitSeeded ==
    /\ \E k \in 0 .. Len(SeedInputs) :
          /\ Len(SeedStore(k)) <= MaxSeed
          /\ k > 0 => Len(SeedStore(k)) > Len(SeedStore(k - 1))
          /\ store = SeedStore(k)
          /\ clock = IF k = 0 THEN 0 ELSE SeedInputs[k].now
    /\ InitTasks({1})

(* ------------------------------ actions -------------------------------- *)
\* reply_text and return: the handling of ev[h] ends with response resp;
\* ret is what the last store function handed back to the handler
CompleteRet(h, resp, calls, log, ret) ==
    /\ pc' = [ pc EXCEPT ![h] = "idle" ]
    /\ out' = [ ev |-> ev[h], resp |-> resp, calls |-> calls, log |-> log,
                ret |-> ret ]
    /\ ev' = [ ev EXCEPT ![h] = NoEvent ]
    /\ loc' = [ loc EXCEPT ![h] = NoLocals ]

Complete(h, resp, calls, log) == CompleteRet(h, resp, calls, log, None)

\* what store_url_mapping returns: it has no return statement, so None
\* after a commit and None after a caught IntegrityError
store_url_mapping_return(ok) == None

Submits(e) ==
    /\ e.kind = "TextMessage"
    /\ startswith(e.text, HTTP) \/ startswith(e.text, HTTPS)

\* the dispatcher of Application hands update e to the handler registered
\* for it; out shows the reply to the update handled last until then
Receive(h, e) ==
    /\ pc[h] = "idle"
    /\ Submits(e) => Cardinality(links) < MaxLinks
    /\ e.kind = "StartWithArg" => SumClicks(store) < MaxClicks
    /\ pc' = [ pc EXCEPT ![h] = "received" ]
    /\ ev' = [ ev EXCEPT ![h] = e ]
    /\ out' = NoOut
    /\ UNCHANGED <<store, clock, loc, returned, links, errors>>

\* start with an admin test in front of the lookup
start_admin_only(h) ==
    /\ pc[h] = "received"
    /\ ev[h].kind \in {"StartWithArg", "StartNoArg"}
    /\ IF ev[h].kind = "StartWithArg" /\ ~ not_admin(ev[h].user)
       THEN /\ pc' = [ pc EXCEPT ![h] = "selected" ]
            /\ loc' = [ loc EXCEPT ![h] =
                          [ calls |-> 1, unique_id |-> ev[h].arg,
                            result |-> SqlSelectUrl(store, ev[h].arg) ] ]
            /\ UNCHANGED <<store, clock, ev, out, returned, links, errors>>
       ELSE IF ev[h].kind = "StartWithArg"
       THEN /\ Complete(h, [ kind |-> "admin_only_command" ], 0, "none")
            /\ UNCHANGED <<store, clock, returned, links, errors>>
       ELSE /\ Complete(h, [ kind |-> "welcome", first_name |-> ev[h].user ],
                        0, "none")
            /\ UNCHANGED <<store, clock, returned, links, errors>>

\* start that looks up an empty argument list as identifier 0
start_lookup_without_arg(h) ==
    /\ pc[h] = "received"
    /\ ev[h].kind \in {"StartWithArg", "StartNoArg"}
    /\ LET arg == IF ev[h].kind = "StartWithArg" THEN ev[h].arg ELSE 0
       IN  /\ pc' = [ pc EXCEPT ![h] = "selected" ]
           /\ loc' = [ loc EXCEPT ![h] =
                         [ calls |-> 1, unique_id |-> arg,
                           result |-> SqlSelectUrl(store, arg) ] ]
           /\ UNCHANGED <<store, clock, ev, out, returned, links, errors>>

\* start, up to and including the SELECT of get_original_url
start(h) ==
    /\ pc[h] = "received"
    /\ ev[h].kind \in {"StartWithArg", "StartNoArg"}
    /\ IF ev[h].kind = "StartWithArg"
       THEN /\ pc' = [ pc EXCEPT ![h] = "selected" ]
            /\ loc' = [ loc EXCEPT ![h] =
                          [ calls |-> 1, unique_id |-> ev[h].arg,
                            result |-> SqlSelectUrl(store, ev[h].arg) ] ]
            /\ UNCHANGED <<store, clock, ev, out, returned, links, errors>>
       ELSE /\ Complete(h, [ kind |-> "welcome", first_name |-> ev[h].user ],
                        0, "none")
            /\ UNCHANGED <<store, clock, returned, links, errors>>

\* the rest of get_original_url (UPDATE and commit when a row was fetched)
\* and the reply of start
get_original_url(h) ==
    /\ pc[h] = "selected"
    /\ LET result == loc[h].result
           unique_id == loc[h].unique_id
           original_url == IF result # None THEN result[1] ELSE None
       IN  /\ store' = IF result # None
                       THEN SqlUpdateClicks(store, unique_id)
                       ELSE store
           /\ returned' = IF original_url # None
                          THEN [ returned EXCEPT ![unique_id] = @ + 1 ]
                          ELSE returned
           /\ IF original_url # None /\ original_url # <<>>
              THEN Complete(h, [ kind |-> "requested_link",
                                 url |-> original_url,
                                 button |-> original_url ],
                            loc[h].calls, "accessed")
              ELSE Complete(h, [ kind |-> "expired" ], loc[h].calls, "none")
    /\ UNCHANGED <<clock, links, errors>>

help_command(h) ==
    /\ pc[h] = "received"
    /\ ev[h].kind = "Help"
    /\ Complete(h, [ kind |-> "help" ], 0, "none")
    /\ UNCHANGED <<store, clock, returned, links, errors>>

\* stats_command, up to and including the first SELECT of get_stats
stats_command(h) ==
    /\ pc[h] = "received"
    /\ ev[h].kind = "Stats"
    /\ IF not_admin(ev[h].user)
       THEN Complete(h, [ kind |-> "admin_only_command" ], 0, "none")
       ELSE /\ pc' = [ pc EXCEPT ![h] = "counted" ]
            /\ loc' = [ loc EXCEPT ![h] =
                          [ calls |-> 1, total_urls |-> SqlCount(store) ] ]
            /\ UNCHANGED <<ev, out>>
    /\ UNCHANGED <<store, clock, returned, links, errors>>

\* the second SELECT of get_stats
get_stats_sum(h) ==
    /\ pc[h] = "counted"
    /\ pc' = [ pc EXCEPT ![h] = "summed" ]
    /\ loc' = [ loc EXCEPT ![h] =
                  [ calls |-> loc[h].calls, total_urls |-> loc[h].total_urls,
                    total_clicks |-> PyOrZero(SqlSum(store)) ] ]
    /\ UNCHANGED <<store, clock, ev, out, returned, links, errors>>

\* the third SELECT of get_stats and the reply of stats_command
get_stats(h) ==
    /\ pc[h] = "summed"
    /\ \E top_urls \in SqlTopUrls(store, TopLimit) :
          Complete(h, [ kind |-> "statistics",
                        total_urls |-> loc[h].total_urls,
                        total_clicks |-> loc[h].total_clicks,
                        top_urls |-> top_urls ],
                   loc[h].calls, "none")
    /\ UNCHANGED <<store, clock, returned, links, errors>>

\* handle_url, up to and including generate_unique_id
handle_url(h) ==
    /\ pc[h] = "received"
    /\ ev[h].kind = "TextMessage"
    /\ IF not_admin(ev[h].user)
       THEN Complete(h, [ kind |-> "only_admin" ], 0, "none")
       ELSE IF ~ has_url_scheme(ev[h].text)
       THEN Complete(h, [ kind |-> "invalid_url" ], 0, "none")
       ELSE /\ pc' = [ pc EXCEPT ![h] = "generated" ]
            /\ loc' = [ loc EXCEPT ![h] =
                          [ calls |-> 0, message_text |-> ev[h].text,
                            now |-> clock,
                            unique_id |->
                               generate_unique_id(ev[h].text, clock) ] ]
            /\ UNCHANGED <<ev, out>>
    /\ UNCHANGED <<store, clock, returned, links, errors>>

\* store_url_mapping and the rest of handle_url: the deep link is built and
\* sent whatever the INSERT did
store_url_mapping(h) ==
    /\ pc[h] = "generated"
    /\ LET unique_id == loc[h].unique_id
           message_text == loc[h].message_text
           r == SqlInsert(store, unique_id, message_text, ev[h].user, clock)
       IN  /\ store' = r.store
           /\ links' = links \cup { <<StartArg(DeepLink(unique_id)),
                                      message_text, loc[h].now>> }
           /\ CompleteRet(h, [ kind |-> "deep_link", url |-> message_text,
                               deep_link |-> DeepLink(unique_id) ],
                          loc[h].calls + 1,
                          IF r.ok THEN "stored" ELSE "duplicate",
                          store_url_mapping_return(r.ok))
    /\ UNCHANGED <<clock, returned, errors>>

button_handler(h) ==
    /\ pc[h] = "received"
    /\ ev[h].kind = "Callback"
    /\ IF startswith(ev[h].data, COPY)
       THEN Complete(h, [ kind |-> "copied",
                          url |-> SubSeq(ev[h].data, Len(COPY) + 1,
                                         Len(ev[h].data)) ],
                     0, "none")
       ELSE Complete(h, [ kind |-> "answered" ], 0, "none")
    /\ UNCHANGED <<store, clock, returned, links, errors>>

\* time passes between two readings of time.time()
Tick ==
    /\ clock < MaxClock
    /\ clock' = clock + 1
    /\ UNCHANGED <<store, pc, ev, loc, out, returned, links, errors>>

Next ==
    \/ \E h \in Tasks : \E e \in Events : Receive(h, e)
    \/ \E h \in Tasks : start(h)
    \/ \E h \in Tasks : get_original_url(h)
    \/ \E h \in Tasks : help_command(h)
    \/ \E h \in Tasks : stats_command(h)
    \/ \E h \in Tasks : get_stats_sum(h)
    \/ \E h \in Tasks : get_stats(h)
    \/ \E h \in Tasks : handle_url(h)
    \/ \E h \in Tasks : store_url_mapping(h)
    \/ \E h \in Tasks : button_handler(h)
    \/ Tick

\* every kind of update, one at a time, on a fresh table
Spec == Init /\ [][Next]_vars

NextStore ==
    \/ \E h \in Tasks : \E e \in StoreEvents : Receive(h, e)
    \/ \E h \in Tasks : start(h)
    \/ \E h \in Tasks : get_original_url(h)
    \/ \E h \in Tasks : stats_command(h)
    \/ \E h \in Tasks : get_stats_sum(h)
    \/ \E h \in Tasks : get_stats(h)
    \/ \E h \in Tasks : handle_url(h)
    \/ \E h \in Tasks : store_url_mapping(h)

\* create, lookup and stats of two updates interleaved statement by
\* statement, on a fresh table and within one reading of the clock
SpecConcurrent == InitConcurrent /\ [][NextStore]_vars

\* create, lookup and stats, one at a time, on the table an earlier run left
SpecSeeded == InitSeeded /\ [][NextStore]_vars

\* every kind of update, one at a time and with time passing, on the table
\* an earlier run left
SpecRestarted == InitSeeded /\ [][Next]_vars

(* links holds, for every deep link sent in this run, the identifier in    *)
(* it, the URL it was sent for and the clock reading its identifier was    *)
(* generated from.  errors counts the exceptions error_handler has logged. *)

\* h is about to execute a statement on the database
AtStoreStatement(h) ==
    \/ pc[h] = "received" /\ ev[h].kind = "StartWithArg"
    \/ pc[h] = "received" /\ ev[h].kind = "Stats" /\ ~ not_admin(ev[h].user)
    \/ pc[h] = "selected" /\ loc[h].result # None
    \/ pc[h] \in {"counted", "summed", "generated"}

\* error_handler that passes the exception on: the task never returns to
\* the dispatcher
error_handler_reraises(h) ==
    /\ AtStoreStatement(h)
    /\ errors < MaxErrors
    /\ errors' = errors + 1
    /\ pc' = [ pc EXCEPT ![h] = "crashed" ]
    /\ UNCHANGED <<store, clock, ev, loc, out, returned, links>>

\* The statement h is about to execute raises sqlite3.Error (the file is
\* locked, the disk is full): it has no effect, and since no handler and no
\* store function catches it (store_url_mapping catches IntegrityError
\* only) it leaves the handler.  Application passes it to error_handler,
\* which writes a log line and sends nothing, and the dispatcher goes on.
error_handler(h) ==
    /\ AtStoreStatement(h)
    /\ errors < MaxErrors
    /\ errors' = errors + 1
    /\ Complete(h, [ kind |-> "none" ],
                IF pc[h] \in {"received", "generated"}
                THEN loc[h].calls + 1 ELSE loc[h].calls,
                "exception")
    /\ UNCHANGED <<store, clock, returned, links>>

NextFailing ==
    \/ \E h \in Tasks : \E e \in Events : Receive(h, e)
    \/ \E h \in Tasks : start(h)
    \/ \E h \in Tasks : get_original_url(h)
    \/ \E h \in Tasks : help_command(h)
    \/ \E h \in Tasks : stats_command(h)
    \/ \E h \in Tasks : get_stats_sum(h)
    \/ \E h \in Tasks : get_stats(h)
    \/ \E h \in Tasks : handle_url(h)
    \/ \E h \in Tasks : store_url_mapping(h)
    \/ \E h \in Tasks : button_handler(h)
    \/ \E h \in Tasks : error_handler(h)

\* the steps of a handler and of error_handler
Handles ==
    \E h \in Tasks :
       \/ start(h) \/ get_original_url(h) \/ help_command(h)
       \/ stats_command(h) \/ get_stats_sum(h) \/ get_stats(h)
       \/ handle_url(h) \/ store_url_mapping(h) \/ button_handler(h)
       \/ error_handler(h)

\* every kind of update, one at a time, on a fresh table and within one
\* reading of the clock, with store statements that can fail; a handler
\* that was started runs on until it returns or raises
SpecFailing == Init /\ [][NextFailing]_vars /\ WF_vars(Handles)

(* ------------------------------ properties ----------------------------- *)
Rows == 1 .. Len(store)

\* h takes the step that leaves control state p
Leaves(h, p) == pc[h] = p /\ pc'[h] # p

\* C1: the click_count of every record is the number of lookups of its
\* identifier that returned its URL, and no lookup of an identifier without
\* record returned one, however the statements of the handlers interleave.
C1_ClickCountExact ==
    /\ \A i \in Rows : store[i].click_count = returned[store[i].unique_id]
    /\ \A u \in Ids \ UniqueIds(store) : returned[u] = 0

\* two lookups of one identifier have both read the row, neither has
\* incremented it yet, and an earlier lookup already counted
C1_Witness ==
    \E h1, h2 \in Tasks :
       /\ h1 # h2
       /\ pc[h1] = "selected" /\ pc[h2] = "selected"
       /\ loc[h1].unique_id = loc[h2].unique_id
       /\ loc[h1].result # None /\ loc[h2].result # None
       /\ returned[loc[h1].unique_id] >= 1

\* C2: a lookup of the identifier of a deep link the admin was given
\* answers with exactly the URL that was submitted for that deep link.
C2_RoundTrip ==
    [][ \A h \in Tasks :
          Leaves(h, "selected") =>
             \A l \in links :
                l[1] = loc[h].unique_id =>
                   /\ out'.resp.kind = "requested_link"
                   /\ out'.resp.url = l[2] ]_vars

\* C3: a TextMessage or Stats update of a sender other than the admin is
\* answered with the refusal, makes no store call and leaves the store as
\* it is.
C3_NonAdminRefused ==
    [][ \A h \in Tasks :
          ( /\ Leaves(h, "received")
            /\ ev[h].kind \in {"TextMessage", "Stats"}
            /\ ev[h].user # ADMIN_ID )
          => /\ pc'[h] = "idle"
             /\ store' = store
             /\ out'.calls = 0
             /\ out'.resp.kind = IF ev[h].kind = "Stats"
                                 THEN "admin_only_command"
                                 ELSE "only_admin" ]_vars

\* a non-admin was refused a valid URL after the admin had created a link
C3_Witness ==
    /\ out.ev.kind = "TextMessage"
    /\ out.ev.user # ADMIN_ID
    /\ startswith(out.ev.text, HTTP)
    /\ out.resp.kind = "only_admin"
    /\ links # {}
    /\ Len(store) > 0

\* C4: no two records have the same identifier.
C4_UniqueIdentifiers ==
    \A i, j \in Rows : i # j => store[i].unique_id # store[j].unique_id

\* one create has just inserted the identifier that another create, already
\* under way, is about to insert
C4_Witness ==
    \E h \in Tasks :
       /\ pc[h] = "generated"
       /\ out.resp.kind = "deep_link"
       /\ out.log = "stored"
       /\ out.resp.deep_link = DeepLink(loc[h].unique_id)
       /\ loc[h].unique_id \in UniqueIds(store)

\* C5: a create whose identifier is already in the store is rejected (the
\* duplicate is logged) and leaves the store as it is.
C5_DuplicateRejected ==
    [][ \A h \in Tasks :
          ( Leaves(h, "generated") /\ loc[h].unique_id \in UniqueIds(store) )
          => /\ store' = store
             /\ out'.log = "duplicate" ]_vars

\* a create was rejected for an identifier whose record holds another URL
C5_Witness ==
    /\ out.ev.kind = "TextMessage"
    /\ out.log = "duplicate"
    /\ \E i \in Rows :
          /\ DeepLink(store[i].unique_id) = out.resp.deep_link
          /\ store[i].original_url # out.ev.text

\* C6: a lookup of an identifier without record fetches nothing, answers
\* that the link is not valid, counts nothing and leaves the store as it is.
C6_NotFoundNoMutation ==
    [][ \A h \in Tasks :
          /\ ( /\ Leaves(h, "received")
               /\ ev[h].kind = "StartWithArg"
               /\ ev[h].arg \notin UniqueIds(store) )
             => /\ store' = store
                /\ pc'[h] = "selected"
                /\ loc'[h].result = None
          /\ ( Leaves(h, "selected") /\ loc[h].result = None )
             => /\ store' = store
                /\ returned' = returned
                /\ out'.resp.kind = "expired" ]_vars

\* an unknown identifier was looked up in a store that has records
C6_Witness ==
    /\ out.ev.kind = "StartWithArg"
    /\ out.ev.arg \notin UniqueIds(store)
    /\ out.resp.kind = "expired"
    /\ Len(store) > 1

\* C7: the total_clicks that stats reports is the sum of click_count over
\* all records, and with no records it reports total_urls 0 and total_clicks
\* the number 0.
C7_TotalClicks ==
    out.resp.kind = "statistics" =>
       /\ out.resp.total_clicks = Some(SumClicks(store))
       /\ Len(store) = 0 =>
            out.resp.total_urls = 0 /\ out.resp.total_clicks = Some(0)

\* stats over several records with clicks
C7_Witness ==
    /\ out.resp.kind = "statistics"
    /\ Len(store) > 1
    /\ out.resp.total_clicks = Some(2)
    /\ \E i \in Rows : store[i].click_count = 1

\* stats over no records
C7_WitnessEmpty ==
    /\ out.resp.kind = "statistics"
    /\ Len(store) = 0

\* C8: the top list that stats reports has at most 5 entries, in
\* non-increasing order of click_count.
C8_TopSorted ==
    out.resp.kind = "statistics" =>
       /\ Len(out.resp.top_urls) <= 5
       /\ \A i \in 1 .. Len(out.resp.top_urls) - 1 :
             out.resp.top_urls[i][2] >= out.resp.top_urls[i + 1][2]

\* stats over more than 5 records, the last of which alone has a click
C8_Witness ==
    /\ out.resp.kind = "statistics"
    /\ Len(store) > 5
    /\ Len(out.resp.top_urls) = 5
    /\ store[1].click_count = 0
    /\ store[Len(store)].click_count = 1
    /\ out.resp.top_urls[1][2] > out.resp.top_urls[2][2]

\* C9: a TextMessage of the admin whose body begins with neither http://
\* nor https:// is answered with the validation failure at once: no
\* identifier is generated, no store call is made, the store stays as it is.
C9_InvalidRejected ==
    [][ \A h \in Tasks :
          ( /\ Leaves(h, "received")
            /\ ev[h].kind = "TextMessage"
            /\ ev[h].user = ADMIN_ID
            /\ ~ startswith(ev[h].text, HTTP)
            /\ ~ startswith(ev[h].text, HTTPS) )
          => /\ pc'[h] = "idle"
             /\ store' = store
             /\ links' = links
             /\ out'.calls = 0
             /\ out'.resp.kind = "invalid_url" ]_vars

\* the admin sent a body that is no URL and was told so
C9_Witness ==
    /\ out.ev.kind = "TextMessage"
    /\ out.ev.user = ADMIN_ID
    /\ out.ev.text = NotUrl
    /\ out.resp.kind = "invalid_url"

\* C10: no step removes a record or changes its identifier, URL, creation
\* time or submitter; click_count changes only by +1 and only in the step
\* in which a lookup of the record's identifier returns its URL.
C10_AppendMostly ==
    [][ /\ Len(store') >= Len(store)
        /\ \A i \in Rows :
              /\ store'[i].id = store[i].id
              /\ store'[i].unique_id = store[i].unique_id
              /\ store'[i].original_url = store[i].original_url
              /\ store'[i].created_at = store[i].created_at
              /\ store'[i].user_id = store[i].user_id
              /\ store'[i].user_name = store[i].user_name
              /\ \/ store'[i].click_count = store[i].click_count
                 \/ /\ store'[i].click_count = store[i].click_count + 1
                    /\ \E h \in Tasks :
                          /\ Leaves(h, "selected")
                          /\ ev[h].kind = "StartWithArg"
                          /\ ev[h].arg = store[i].unique_id
                          /\ out'.resp.kind = "requested_link"
                          /\ out'.resp.url = store[i].original_url ]_vars

\* a lookup has counted a click in a store of several records, one of them
\* created in this run
C10_Witness ==
    /\ out.resp.kind = "requested_link"
    /\ Len(store) > 1
    /\ links # {}
    /\ \E i \in Rows :
          /\ store[i].unique_id = out.ev.arg
          /\ store[i].click_count = 2

\* C11: whenever a deep link is sent in reply to a TextMessage, the create
\* succeeded and the store holds a record with the identifier of the deep
\* link and the URL submitted in that update; after a duplicate no deep link
\* is sent.
C11_LinkOnlyAfterCreate ==
    out.resp.kind = "deep_link" =>
       /\ out.log = "stored"
       /\ \E i \in Rows :
             /\ store[i].unique_id = StartArg(out.resp.deep_link)
             /\ store[i].original_url = out.ev.text

\* C12: what store_url_mapping hands back to handle_url after a duplicate
\* differs from what it hands back after a successful create.
C12_DuplicateReported ==
    ( out.resp.kind = "deep_link" /\ out.log = "duplicate" ) =>
       out.ret # store_url_mapping_return(TRUE)

\* C13: a StartWithArg update of any sender, admin or not, is looked up and
\* never refused: when a record with the argument as identifier exists the
\* sender is sent its URL and its click_count grows by one, and when none
\* exists the sender is told that the link is not valid and the store stays
\* as it is.
C13_StartNeverRefused ==
    [][ \A h \in Tasks :
          /\ ( Leaves(h, "received") /\ ev[h].kind = "StartWithArg" )
             => /\ pc'[h] = "selected"
                /\ store' = store
                /\ loc'[h].result # None <=> ev[h].arg \in UniqueIds(store)
          /\ ( Leaves(h, "selected") /\ ev[h].kind = "StartWithArg" )
             => /\ pc'[h] = "idle"
                /\ out'.ev = ev[h]
                /\ IF ev[h].arg \in UniqueIds(store)
                   THEN \E i \in Rows :
                           /\ store[i].unique_id = ev[h].arg
                           /\ out'.resp.kind = "requested_link"
                           /\ out'.resp.url = store[i].original_url
                           /\ store'[i].click_count =
                                 store[i].click_count + 1
                   ELSE /\ out'.resp.kind = "expired"
                        /\ store' = store ]_vars

\* a sender other than the admin opened the link of a record for the first
\* time, the admin having opened another one
C13_Witness ==
    /\ out.ev.kind = "StartWithArg"
    /\ out.ev.user # ADMIN_ID
    /\ out.resp.kind = "requested_link"
    /\ \E i, j \in Rows :
          /\ i # j
          /\ store[i].unique_id = out.ev.arg
          /\ store[i].click_count = 1
          /\ store[j].click_count = 1

\* C16: a StartNoArg, Help or Callback update of any sender is answered in
\* one step that calls no store function and leaves every record, the
\* number of records and every click_count as they are.
C16_NoStoreAccess ==
    [][ \A h \in Tasks :
          ( /\ Leaves(h, "received")
            /\ ev[h].kind \in {"StartNoArg", "Help", "Callback"} )
          => /\ pc'[h] = "idle"
             /\ out'.ev = ev[h]
             /\ out'.calls = 0
             /\ store' = store
             /\ returned' = returned
             /\ links' = links ]_vars

\* a sender other than the admin pressed a copy button while the store held
\* a record with a click
C16_Witness ==
    /\ out.ev.kind = "Callback"
    /\ out.ev.user # ADMIN_ID
    /\ out.resp.kind = "copied"
    /\ \E i \in Rows : store[i].click_count > 0

\* C17: the top list that stats reports has exactly min(5, number of
\* records) entries; the entries are the (URL, click_count) pairs of
\* distinct records (a pair occurs in the list at most as often as among the
\* records); and a record that is left out has no click_count greater than
\* that of an entry.
C17_TopList ==
    out.resp.kind = "statistics" =>
       LET top == out.resp.top_urls
           pair(i) == <<store[i].original_url, store[i].click_count>>
           inTop(v) == Cardinality({ k \in 1 .. Len(top) : top[k] = v })
           inStore(v) == Cardinality({ i \in Rows : pair(i) = v })
       IN  /\ Len(top) = Min(5, Len(store))
           /\ \A k \in 1 .. Len(top) : inTop(top[k]) <= inStore(top[k])
           /\ \A i \in Rows :
                 inStore(pair(i)) > inTop(pair(i)) =>
                    \A k \in 1 .. Len(top) : store[i].click_count <= top[k][2]

\* stats over 6 records of which two have a click: both are in the list of
\* 5, and one of the records without click is left out
C17_Witness ==
    /\ out.resp.kind = "statistics"
    /\ Len(store) = 6
    /\ Len(out.resp.top_urls) = 5
    /\ Cardinality({ i \in Rows : store[i].click_count = 1 }) = 2
    /\ out.resp.top_urls[2][2] = 1
    /\ out.resp.top_urls[3][2] = 0

C18_SeparateRecords ==
    [][ /\ \A l1, l2 \in links' :
              ( l1[2] = l2[2] /\ l1[1] # l2[1] )
              => \E i, j \in 1 .. Len(store') :
                    /\ i # j
                    /\ store'[i].unique_id = l1[1]
                    /\ store'[j].unique_id = l2[1]
                    /\ store'[i].original_url = l1[2]
                    /\ store'[j].original_url = l2[2]
        /\ \A h \in Tasks :
              Leaves(h, "selected")
              => \A i \in Rows :
                    store[i].unique_id # loc[h].unique_id
                    => store'[i].click_count = store[i].click_count
      ]_vars

\* C14: when a store statement of create, lookup or stats failed, the
\* handling of the update ends with an error response to its sender.
C14_FailureAnswered ==
    out.log = "exception" => out.resp.kind = "error"

\* C15: an update in the hands of the handler task is always done with in
\* the end and the task is back at the dispatcher, whether the handler
\* returns or a store statement raises, before or after an exception was
\* logged.
C15_DispatchGoesOn ==
    pc[1] # "idle" ~> pc[1] = "idle"

\* a submission was stored and answered after an exception had been logged
C15_Witness ==
    /\ errors > 0
    /\ out.resp.kind = "deep_link"
    /\ out.log = "stored"

====
